---------------------------- MODULE Spec2Model ----------------------------
(***************************************************************************)
(* A model of tlpipe's raw-timestream container operations                 *)
(* (RawTimestream.feed_select, RawTimestream.separate_pol_and_bl), of the  *)
(* Rt2ts task that drives the separation, and of the frequency flagging    *)
(* task (Flag.process / Flag.flag).                                        *)
(*                                                                         *)
(* Conventions.  Python positions are 0-based; sequence positions here are *)
(* 1-based, so a baseline index k of the model is the index k-1 of the     *)
(* code.  Axis numbers (the dist axis) are kept 0-based as in the code.    *)
(* A complex number is a pair <<re, im>> of integers.  An optional value   *)
(* is a sequence of length 0 (None) or 1.                                  *)
(***************************************************************************)
EXTENDS Integers, Sequences, FiniteSets, TLC

\* ------------------------------------------------------------------ bounds
\* number of feeds listed in the first input file
MaxFeed == 2
\* local shape of the time and frequency axes of the main data
NTime == 1
NFreq == 2
\* the container handed to the flag task: the global length of its frequency
\* axis and the number of its baselines
NFlagFreq == 4
NFlagBl == 1
\* the largest sigma of the flag task, and the number of times it is run
MaxSigma == 2
MaxRuns == 2
\* the number of read_process_write calls made on one task
MaxIter == 3
\* the largest number of time samples of the container handed to map-making
MaxNt == 3
\* the number of worker processes
NWorkers == 2

Feeds == 1..MaxFeed
Times == 1..NTime
Freqs == 1..NFreq
Corrs == {"auto", "cross", "all"}

\* ----------------------------------------------------------------- helpers
None == << >>
Some(x) == << x >>
Range(s) == { s[i] : i \in DOMAIN s }
Min(a, b) == IF a <= b THEN a ELSE b

RECURSIVE IndexFrom(_, _, _)
IndexFrom(s, x, i) ==
    IF i > Len(s) THEN 0 ELSE IF s[i] = x THEN i ELSE IndexFrom(s, x, i + 1)

\* list.index(x): the first position of x, 0 when x is absent (ValueError)
IndexOf(s, x) == IndexFrom(s, x, 1)

RECURSIVE SortSet(_)
\* the elements of a set of integers as an ascending list
SortSet(S) ==
    IF S = {} THEN << >>
    ELSE LET m == CHOOSE x \in S : \A y \in S : x <= y
         IN  << m >> \o SortSet(S \ {m})

RECURSIVE InsertSorted(_, _)
InsertSorted(x, s) ==
    IF s = << >> THEN << x >>
    ELSE IF x <= Head(s) THEN << x >> \o s
    ELSE << Head(s) >> \o InsertSorted(x, Tail(s))

RECURSIVE Sorted(_)
\* sorted(list): ascending, duplicates kept
Sorted(s) == IF s = << >> THEN << >> ELSE InsertSorted(Head(s), Sorted(Tail(s)))

RECURSIVE Flatten(_)
Flatten(ss) == IF ss = << >> THEN << >> ELSE Head(ss) \o Flatten(Tail(ss))

RECURSIVE PairsFrom(_, _, _)
\* the index pairs <<i, j>>, i from the given start to n and j from i+d to n,
\* in the order of the nested loops (d = 0: j from i, d = 1: j from i+1)
PairsFrom(i, n, d) ==
    IF i > n THEN << >>
    ELSE [ j \in 1..(n - i - d + 1) |-> << i, i + d + j - 1 >> ] \o PairsFrom(i + 1, n, d)

\* numpy's conj() of a complex number
Conj(z) == << z[1], 0 - z[2] >>

\* ------------------------------------------------------- input file family
\* The first input file's feedno / channo / blorder datasets.  feedno is any
\* ordering of the feeds; channo[p] is the channel pair of feedno[p]; blorder
\* lists the correlator's channel pairs.
AllPerms == { s \in [1..MaxFeed -> Feeds] : \A i, j \in 1..MaxFeed : i # j => s[i] # s[j] }

\* The (x, y) channels of feed number fd: adjacent channels, x first
\* ("pair"), or all the y channels before all the x channels ("split").
Layouts == {"pair", "split"}
ChanOf(layout, fd) ==
    CASE layout = "pair"  -> << 2 * (fd - 1), 2 * (fd - 1) + 1 >>
      [] layout = "split" -> << MaxFeed + fd - 1, fd - 1 >>

\* The shapes of blorder: every pair (c, d) with c <= d in ascending order
\* ("fwd"); the same list reversed, every pair as (d, c) ("rev"); ascending
\* with the pairs of odd c + d stored as (d, c) ("mixed"); and ascending
\* without the pairs (c, c) ("noauto").
Shapes == {"fwd", "rev", "mixed", "noauto"}
\* the channel pairs (c, d), c <= d, of all 2*MaxFeed channels, in order
CanonPairs(shape) ==
    LET all == PairsFrom(1, 2 * MaxFeed, IF shape = "noauto" THEN 1 ELSE 0)
    IN  [ k \in DOMAIN all |-> << all[k][1] - 1, all[k][2] - 1 >> ]

FileBlorder(shape) ==
    LET cp == CanonPairs(shape)
        n  == Len(cp)
    IN  CASE shape = "rev"   -> [ k \in 1..n |-> << cp[n + 1 - k][2], cp[n + 1 - k][1] >> ]
          [] shape = "mixed" -> [ k \in 1..n |-> IF (cp[k][1] + cp[k][2]) % 2 = 1
                                                  THEN << cp[k][2], cp[k][1] >> ELSE cp[k] ]
          [] OTHER           -> cp

InFiles ==
    { [ feedno  |-> fl,
        channo  |-> [ p \in 1..MaxFeed |-> ChanOf(l, fl[p]) ],
        blorder |-> FileBlorder(sh) ]
      : fl \in AllPerms, l \in Layouts, sh \in Shapes }

\* the visibility and the mask the files hold at (time t, frequency f,
\* file baseline k)
FileVis(t, f, k) == << k, NFreq * (t - 1) + f >>
MaskPats == 0..1
FileMask(m, t, f, k) == (t + f + k) % 3 = m

\* --------------------------------------------------------- selection values
\* A selection value is a tuple (start, stop) making slice(start, stop), or a
\* list of feed numbers.  NoneStop stands for a stop of None.
NoneStop == 0 - 1
TupleVal(a, b) == [ kind |-> "tuple", start |-> a, stop |-> b, list |-> {} ]
ListVal(S) == [ kind |-> "list", start |-> 0, stop |-> NoneStop, list |-> S ]
DefaultVal == TupleVal(0, NoneStop)
Values == { TupleVal(a, NoneStop) : a \in 0..1 } \cup { ListVal(S) : S \in (SUBSET Feeds) \ {{}} }

VARIABLES
    infile,          \* self.infiles[0]: the feedno, channo, blorder it holds
    bl_select,       \* self._main_data_select for the baseline axis
    feed_select_,    \* self._feed_select
    channel_select_, \* self._channel_select
    last,            \* the corr of the last feed_select call that returned, and
                     \* whether it returned early
    prev,            \* when that call selected a list of feeds among the feeds the
                     \* call before it had left, with the same corr: those feeds
                     \* and the list
    failed,          \* the feeds and corr of the feed_select call that raised
    pc,              \* the position in the read -> select -> load -> process cycle
    rt,              \* the loaded RawTimestream container
    ts,              \* the Timestream container separate_pol_and_bl returned
    call,            \* the arguments and dist axes of the separate_pol_and_bl call
    tod,             \* the container handed to Flag.process
    params,          \* the flag task's self.params: sigma, freq_points
    before,          \* tod as the last Flag.process call found it
    nrun,            \* the number of Flag.process calls made
    warned,          \* whether the last Flag.process call warned
    stage,           \* the task class: Flag, Rt2ts or MapMaking
    no_input,        \* the task's self._no_input
    taskpar,         \* the task's self.params that decide an outcome
    Tod_class,       \* the task's self._Tod_class
    rpw,             \* the last read_process_write call: its input and what it did
    niter,           \* the number of read_process_write calls made
    srcd,            \* the datasets of the source of a separate_pol_and_bl call
    sepd,            \* what that call raised, the datasets of what it returned
    job,             \* the stage the workers run, its parameters and the
                     \* replicated values of its container
    wpc,             \* each worker's position in the stage
    wait,            \* the collective operation each worker is inside
    wdist,           \* the distribution axis each worker's container is on
    mm,              \* the container handed to MapMaking.process
    mmpar,           \* the map-making parameters and the telescope's phi_size
    mmbefore         \* mm as MapMaking.process found it

selvars == << infile, bl_select, feed_select_, channel_select_, last, prev, failed, pc, rt, ts, call >>
flagvars == << tod, params, before, nrun, warned >>
taskvars == << stage, no_input, taskpar, Tod_class, rpw, niter >>
dsetvars == << srcd, sepd >>
workvars == << job, wpc, wait, wdist >>
mmvars == << mm, mmpar, mmbefore >>
vars == << selvars, flagvars, taskvars, dsetvars, workvars, mmvars >>
\* what the actions of one part leave alone
notsel == << flagvars, taskvars, dsetvars, workvars, mmvars >>
notflag == << selvars, taskvars, dsetvars, workvars, mmvars >>
nottask == << selvars, flagvars, dsetvars, workvars, mmvars >>
notdset == << selvars, flagvars, taskvars, workvars, mmvars >>
notwork == << selvars, flagvars, taskvars, dsetvars, mmvars >>
notmm == << selvars, flagvars, taskvars, dsetvars, workvars >>

\* ------------------------------------------------------------- feed_select
\* feedno[slice(*value)] for a tuple, np.intersect1d(feedno, value) for a list
FeedsOfValue(value, feedno) ==
    IF value.kind = "tuple"
    THEN SubSeq(feedno, value.start + 1,
                IF value.stop = NoneStop THEN Len(feedno) ELSE Min(value.stop, Len(feedno)))
    ELSE SortSet(Range(feedno) \cap value.list)

\* self.infiles[0]['feedno'][:].tolist(): the feed list feed_select looks
\* the selected feeds up in
SelFeednoReread(fsel, file) == IF fsel = None THEN file.feedno ELSE fsel[1]
SelFeedno(fsel, file) == file.feedno

\* channo[feedno.index(fd)]
ChanRow(feedno, channo, fd) == channo[IndexOf(feedno, fd)]

AutoPairs(feeds, feedno, channo) ==
    Flatten([ i \in DOMAIN feeds |->
        LET r == ChanRow(feedno, channo, feeds[i])
        IN  << {r[1]}, {r[2]}, {r[1], r[2]} >> ])

FourPairs(feedno, channo, fd1, fd2) ==
    LET r1 == ChanRow(feedno, channo, fd1)
        r2 == ChanRow(feedno, channo, fd2)
    IN  << {r1[1], r2[1]}, {r1[1], r2[2]}, {r1[2], r2[1]}, {r1[2], r2[2]} >>

\* itertools.combinations(feeds, 2)
CrossPairsThree(feeds, feedno, channo) ==
    LET ij == PairsFrom(1, Len(feeds), 1)
    IN  Flatten([ k \in DOMAIN ij |->
            SubSeq(FourPairs(feedno, channo, feeds[ij[k][1]], feeds[ij[k][2]]), 1, 3) ])
CrossPairs(feeds, feedno, channo) ==
    LET ij == PairsFrom(1, Len(feeds), 1)
    IN  Flatten([ k \in DOMAIN ij |-> FourPairs(feedno, channo, feeds[ij[k][1]], feeds[ij[k][2]]) ])

\* itertools.combinations_with_replacement(feeds, 2)
AllPairsNoRepl(feeds, feedno, channo) ==
    LET ij == PairsFrom(1, Len(feeds), 1)
    IN  Flatten([ k \in DOMAIN ij |-> FourPairs(feedno, channo, feeds[ij[k][1]], feeds[ij[k][2]]) ])
AllPairs(feeds, feedno, channo) ==
    LET ij == PairsFrom(1, Len(feeds), 0)
    IN  Flatten([ k \in DOMAIN ij |-> FourPairs(feedno, channo, feeds[ij[k][1]], feeds[ij[k][2]]) ])

ChannelPairs(corr, feeds, feedno, channo) ==
    CASE corr = "auto"  -> AutoPairs(feeds, feedno, channo)
      [] corr = "cross" -> CrossPairs(feeds, feedno, channo)
      [] corr = "all"   -> AllPairs(feeds, feedno, channo)

\* [ set(bl) for bl in blorder ]
SetBlorder(blorder) == [ k \in DOMAIN blorder |-> { blorder[k][1], blorder[k][2] } ]

\* { blorder.index(chp) for chp in channel_pairs }, 0 standing for a pair
\* blorder.index does not find
FoundIndices(blorder, chps) ==
    UNION { { IndexOf(sbl, chp) : chp \in Range(chps) } : sbl \in { SetBlorder(blorder) } }

NoSelection(ret, err) ==
    [ ret |-> ret, err |-> err, indices |-> << >>, feeds |-> << >>, chans |-> << >> ]

\* feed_select once feeds is computed: err when blorder.index raised
\* ValueError, and the indices, feeds and channels it sets otherwise
SelectFeeds(file, feedno, feeds, corr) ==
    LET found == FoundIndices(file.blorder, ChannelPairs(corr, feeds, feedno, file.channo))
    IN  IF 0 \in found
        THEN NoSelection(FALSE, TRUE)
        ELSE [ ret |-> FALSE, err |-> FALSE,
               indices |-> SortSet(found),
               feeds   |-> feeds,
               chans   |-> [ k \in DOMAIN feeds |-> ChanRow(feedno, file.channo, feeds[k]) ] ]

\* The outcome of feed_select(value, corr) on a container whose recorded feed
\* selection is fsel: ret is the early return.
FeedSelectOutcome(file, fsel, value, corr) ==
    IF value = DefaultVal /\ corr = "all"
    THEN NoSelection(TRUE, FALSE)
    ELSE CHOOSE o \in { IF \E k \in DOMAIN feeds : IndexOf(feedno, feeds[k]) = 0
                        THEN NoSelection(FALSE, TRUE)
                        ELSE SelectFeeds(file, feedno, feeds, corr)
                        : << feedno, feeds >> \in
                            { << fn, FeedsOfValue(value, fn) >> : fn \in { SelFeedno(fsel, file) } } }
                : TRUE

FeedSelect(value, corr) ==
    /\ pc = "file"
    /\ \E o \in { FeedSelectOutcome(infile, feed_select_, value, corr) } :
           IF o.err
           THEN /\ pc' = "select_error"
                /\ failed' = Some([ feeds |-> FeedsOfValue(value, infile.feedno), corr |-> corr ])
                /\ UNCHANGED << bl_select, feed_select_, channel_select_, last, prev >>
           ELSE /\ last' = Some([ corr |-> corr, ret |-> o.ret ])
                /\ prev' = IF /\ last # None
                              /\ feed_select_ # None
                              /\ last[1].corr = corr
                              /\ value.kind = "list"
                              /\ value.list \subseteq Range(feed_select_[1])
                           THEN Some([ remaining |-> feed_select_[1], list |-> value.list ])
                           ELSE None
                /\ IF o.ret
                   THEN UNCHANGED << bl_select, feed_select_, channel_select_ >>
                   ELSE /\ bl_select' = Some(o.indices)
                        /\ feed_select_' = Some(o.feeds)
                        /\ channel_select_' = Some(o.chans)
                /\ UNCHANGED << pc, failed >>
    /\ UNCHANGED << infile, rt, ts, call >>
    /\ UNCHANGED notsel

\* ---------------------------------------------------------------- load_all
NoContainer == [ loaded |-> FALSE ]
NoCall == [ made |-> FALSE ]

\* the file baseline indices the baseline selection keeps
SelectedBls(file, sel) ==
    IF sel = None THEN [ k \in 1..Len(file.blorder) |-> k ] ELSE sel[1]

\* _load_a_common_dataset('channo'): the recorded channel selection when
\* there is one, the file's dataset otherwise
LoadChanno(file, csel) == IF csel # None THEN csel[1] ELSE file.channo

\* the feedno dataset is loaded the same way from the recorded feed selection
LoadFeedno(file, fsel) == IF fsel # None THEN fsel[1] ELSE file.feedno

\* the container load_all builds: every baseline-ordered dataset holds the
\* selected file baselines, in order
LoadedContainer(file, sel, fsel, csel, axis, m) ==
    LET idx == SelectedBls(file, sel)
    IN  [ loaded    |-> TRUE,
          feedno    |-> LoadFeedno(file, fsel),
          channo    |-> LoadChanno(file, csel),
          blorder   |-> [ b \in DOMAIN idx |-> file.blorder[idx[b]] ],
          vis       |-> [ t \in Times |-> [ f \in Freqs |->
                            [ b \in DOMAIN idx |-> FileVis(t, f, idx[b]) ] ] ],
          vis_mask  |-> [ t \in Times |-> [ f \in Freqs |->
                            [ b \in DOMAIN idx |-> FileMask(m, t, f, idx[b]) ] ] ],
          dist_axis |-> axis ]

\* TaskTimestream.read_input: the container is built with params['dist_axis']
\* and loaded; m picks the mask the files hold
LoadAll(axis, m) ==
    /\ pc = "file"
    /\ rt' = LoadedContainer(infile, bl_select, feed_select_, channel_select_, axis, m)
    /\ pc' = "loaded"
    /\ last' = None
    /\ prev' = None
    /\ UNCHANGED << infile, bl_select, feed_select_, channel_select_, failed, ts, call >>
    /\ UNCHANGED notsel

\* ----------------------------------------------------- separate_pol_and_bl
\* RawTimestream._main_data_axes_
MainDataAxes == << "time", "frequency", "baseline" >>
\* the axes of the Timestream's main data ('dimname')
TsDataAxes == << "time", "frequency", "polarization", "baseline" >>
PolLabels == << "xx", "yy", "xy", "yx" >>

\* whether the source is redistributed before the gather
NeverRedistribute(axis) == FALSE
MustRedistribute(axis) == MainDataAxes[axis + 1] = "baseline"

\* _get_ind(chp): (conj, index) of the pair in blorder, of the reversed pair
\* when blorder does not hold it; ok is FALSE when conj_blorder.index raises.
\* The pair looked up is kept beside the result.
GetIndNoConj(blorder, chp) ==
    LET k == IndexOf(blorder, chp)
        r == IndexOf(blorder, << chp[2], chp[1] >>)
    IN  IF k > 0 THEN [ chp |-> chp, ok |-> TRUE, conj |-> FALSE, ind |-> k ]
        ELSE [ chp |-> chp, ok |-> r > 0, conj |-> FALSE, ind |-> r ]
GetInd(blorder, chp) ==
    LET conj_blorder == [ k \in DOMAIN blorder |-> << blorder[k][2], blorder[k][1] >> ]
        k == IndexOf(blorder, chp)
        r == IndexOf(conj_blorder, chp)
    IN  IF k > 0 THEN [ chp |-> chp, ok |-> TRUE, conj |-> FALSE, ind |-> k ]
        ELSE [ chp |-> chp, ok |-> r > 0, conj |-> TRUE, ind |-> r ]

\* the channel pairs of polarization p (1: xx, 2: yy, 3: xy, 4: yx) over the
\* feed index pairs ij
PolPairsYxAsXy(p, ij, xchans, ychans) ==
    [ b \in DOMAIN ij |->
        CASE p = 1 -> << xchans[ij[b][1]], xchans[ij[b][2]] >>
          [] p = 2 -> << ychans[ij[b][1]], ychans[ij[b][2]] >>
          [] p = 3 -> << xchans[ij[b][1]], ychans[ij[b][2]] >>
          [] p = 4 -> << xchans[ij[b][1]], ychans[ij[b][2]] >> ]
PolPairs(p, ij, xchans, ychans) ==
    [ b \in DOMAIN ij |->
        CASE p = 1 -> << xchans[ij[b][1]], xchans[ij[b][2]] >>
          [] p = 2 -> << ychans[ij[b][1]], ychans[ij[b][2]] >>
          [] p = 3 -> << xchans[ij[b][1]], ychans[ij[b][2]] >>
          [] p = 4 -> << ychans[ij[b][1]], xchans[ij[b][2]] >> ]

\* np.where(conj, rvis[:, :, inds].conj(), rvis[:, :, inds]) for the four
\* polarizations
GatherVis(rvis, list) ==
    [ t \in DOMAIN rvis |-> [ f \in DOMAIN rvis[t] |-> [ p \in 1..4 |->
        [ b \in DOMAIN list[p] |->
            IF list[p][b].conj THEN Conj(rvis[t][f][list[p][b].ind])
            ELSE rvis[t][f][list[p][b].ind] ] ] ] ]

\* rvis_mask[:, :, inds] for the four polarizations
GatherMaskSwapped(rmask, list) ==
    [ t \in DOMAIN rmask |-> [ f \in DOMAIN rmask[t] |-> [ p \in 1..4 |->
        [ b \in DOMAIN list[p] |->
            rmask[t][f][list[IF p = 3 THEN 4 ELSE IF p = 4 THEN 3 ELSE p][b].ind] ] ] ] ]
GatherMask(rmask, list) ==
    [ t \in DOMAIN rmask |-> [ f \in DOMAIN rmask[t] |-> [ p \in 1..4 |->
        [ b \in DOMAIN list[p] |-> rmask[t][f][list[p][b].ind] ] ] ] ]

\* the new blorder: [feedno[i], feedno[j]] for i, j >= i
TsBlorderCrossOnly(feedno) ==
    LET ij == PairsFrom(1, Len(feedno), 1)
    IN  [ b \in DOMAIN ij |-> << feedno[ij[b][1]], feedno[ij[b][2]] >> ]
TsBlorder(feedno) ==
    LET ij == PairsFrom(1, Len(feedno), 0)
    IN  [ b \in DOMAIN ij |-> << feedno[ij[b][1]], feedno[ij[b][2]] >> ]

\* the four lists of _get_ind results (xx, yy, xy, yx) over the sorted feeds
IndexLists(src, feedno) ==
    LET xchans == [ i \in DOMAIN feedno |-> src.channo[IndexOf(feedno, feedno[i])][1] ]
        ychans == [ i \in DOMAIN feedno |-> src.channo[IndexOf(feedno, feedno[i])][2] ]
        ij     == PairsFrom(1, Len(feedno), 0)
    IN  [ p \in 1..4 |->
            [ b \in DOMAIN ij |-> GetInd(src.blorder, PolPairs(p, ij, xchans, ychans)[b]) ] ]

\* separate_pol_and_bl from the gather on, the source being distributed
\* along axis
SeparateFrom(src, keep, original_dist_axis, axis, feedno, list) ==
    LET err == \E p \in 1..4 : \E b \in DOMAIN list[p] : ~ list[p][b].ok
    IN  [ err         |-> err,
          gather_axis |-> axis,
          list        |-> list,
          src_axis    |-> IF ~ err /\ keep THEN original_dist_axis ELSE axis,
          ts          |-> IF err THEN NoContainer
                          ELSE [ loaded    |-> TRUE,
                                 dist_axis |-> axis,
                                 vis       |-> GatherVis(src.vis, list),
                                 vis_mask  |-> GatherMask(src.vis_mask, list),
                                 pol       |-> PolLabels,
                                 blorder   |-> TsBlorder(feedno) ] ]

\* The outcome of src.separate_pol_and_bl(keep_dist_axis): err when _get_ind
\* raised ValueError, the container returned otherwise, the dist axis the
\* source is left with, and the index / conjugate vectors of the gather.
SeparatePolAndBl(src, keep_dist_axis) ==
    LET original_dist_axis == src.dist_axis
        redis == MustRedistribute(original_dist_axis)
        keep  == IF redis THEN FALSE ELSE keep_dist_axis
        axis  == IF redis THEN 0 ELSE original_dist_axis
    IN  CHOOSE o \in { SeparateFrom(src, keep, original_dist_axis, axis, fl[1], fl[2])
                       : fl \in { << fn, IndexLists(src, fn) >> : fn \in { Sorted(src.feedno) } } }
            : TRUE

\* Rt2ts.process: rt.separate_pol_and_bl(self.params['keep_dist_axis'])
Rt2tsProcess(keep_dist_axis) ==
    /\ pc = "loaded"
    /\ \E o \in { SeparatePolAndBl(rt, keep_dist_axis) } :
           /\ rt' = [ rt EXCEPT !.dist_axis = o.src_axis ]
           /\ ts' = o.ts
           /\ pc' = IF o.err THEN "separate_error" ELSE "separated"
           /\ call' = [ made |-> TRUE, keep_dist_axis |-> keep_dist_axis,
                        original_dist_axis |-> rt.dist_axis,
                        gather_axis |-> o.gather_axis, list |-> o.list ]
    /\ UNCHANGED << infile, bl_select, feed_select_, channel_select_, last, prev, failed >>
    /\ UNCHANGED notsel

\* --------------------------------------------------------------- Flag task
\* np.abs of a complex number whose modulus is an integer
Norm2(z) == z[1] * z[1] + z[2] * z[2]
Abs(z) == CHOOSE r \in 0..Norm2(z) : r * r <= Norm2(z) /\ (r + 1) * (r + 1) > Norm2(z)

RECURSIVE SumOver(_, _)
\* the sum of a[i] over the indices i of S
SumOver(a, S) ==
    IF S = {} THEN 0
    ELSE LET i == CHOOSE x \in S : TRUE IN a[i] + SumOver(a, S \ {i})

\* abs(a - mean) > sigma * std over the n valid samples of sum s and sum of
\* squares q, mean = s / n and std = sqrt(q / n - mean^2): both sides times n,
\* squared
Deviates(a, n, s, q, sigma) == (n * a - s) * (n * a - s) > sigma * sigma * (n * q - s * s)

\* Flag.flag on one frequency column: the mask it leaves.  Only the samples
\* it finds deviating are set; a masked sample stays masked whether or not
\* np.where lists it.
FlagOverwrite(vis, vis_mask, sigma, freq_points) ==
    LET vis_abs == [ i \in DOMAIN vis |-> Abs(vis[i]) ]
        sq      == [ i \in DOMAIN vis |-> Norm2(vis[i]) ]
        valid   == { i \in DOMAIN vis : ~ vis_mask[i] }
        n       == Cardinality(valid)
    IN  IF n >= freq_points
        THEN [ i \in DOMAIN vis |->
                 i \in valid /\ Deviates(vis_abs[i], n, SumOver(vis_abs, valid), SumOver(sq, valid), sigma) ]
        ELSE vis_mask
FlagMaskedStats(vis, vis_mask, sigma, freq_points) ==
    LET vis_abs == [ i \in DOMAIN vis |-> Abs(vis[i]) ]
        sq      == [ i \in DOMAIN vis |-> Norm2(vis[i]) ]
        valid   == { i \in DOMAIN vis : ~ vis_mask[i] }
        n       == Cardinality(valid)
        all     == DOMAIN vis
    IN  IF n >= freq_points
        THEN [ i \in DOMAIN vis |->
                 \/ vis_mask[i]
                 \/ Deviates(vis_abs[i], Cardinality(all), SumOver(vis_abs, all), SumOver(sq, all), sigma) ]
        ELSE vis_mask
Flag(vis, vis_mask, sigma, freq_points) ==
    LET vis_abs == [ i \in DOMAIN vis |-> Abs(vis[i]) ]
        sq      == [ i \in DOMAIN vis |-> Norm2(vis[i]) ]
        valid   == { i \in DOMAIN vis : ~ vis_mask[i] }
        n       == Cardinality(valid)
    IN  IF n >= freq_points
        THEN CHOOSE m \in { [ i \in DOMAIN vis |->
                               \/ vis_mask[i]
                               \/ Deviates(vis_abs[i], n, ss[1], ss[2], sigma) ]
                            : ss \in { << SumOver(vis_abs, valid), SumOver(sq, valid) >> } } : TRUE
        ELSE vis_mask

\* time_and_bl_data_operate(func, full_data=True): func on the frequency
\* column of every (time, baseline), which sets the column's mask in place
TimeAndBlDataOperate(c, sigma, freq_points) ==
    LET cols == [ t \in DOMAIN c.vis |-> [ b \in 1..c.nbl |->
                    Flag([ f \in DOMAIN c.vis[t] |-> c.vis[t][f][b] ],
                         [ f \in DOMAIN c.vis[t] |-> c.vis_mask[t][f][b] ],
                         sigma, freq_points) ] ]
    IN  [ t \in DOMAIN c.vis |-> [ f \in DOMAIN c.vis[t] |-> [ b \in 1..c.nbl |-> cols[t][b][f] ] ] ]

\* time_pol_and_bl_data_operate(func, full_data=True): the same on the
\* frequency column of every (time, polarization, baseline)
TimePolAndBlDataOperate(c, sigma, freq_points) ==
    LET cols == [ t \in DOMAIN c.vis |-> [ p \in 1..c.npol |-> [ b \in 1..c.nbl |->
                    Flag([ f \in DOMAIN c.vis[t] |-> c.vis[t][f][p][b] ],
                         [ f \in DOMAIN c.vis[t] |-> c.vis_mask[t][f][p][b] ],
                         sigma, freq_points) ] ] ]
    IN  [ t \in DOMAIN c.vis |-> [ f \in DOMAIN c.vis[t] |->
            [ p \in 1..c.npol |-> [ b \in 1..c.nbl |-> cols[t][p][b][f] ] ] ] ]

FlagProcessNoSkip(c, par) ==
    [ warned |-> FALSE,
      tod    |-> [ c EXCEPT !.dist_axis = 0,
                            !.vis_mask = IF c.kind = "raw"
                                         THEN TimeAndBlDataOperate(c, par.sigma, par.freq_points)
                                         ELSE TimePolAndBlDataOperate(c, par.sigma, par.freq_points) ] ]
\* Flag.process(ts): the container it returns and whether it warned
FlagProcessOutcome(c, par) ==
    IF c.nfreq >= par.freq_points
    THEN [ warned |-> FALSE,
           tod    |-> [ c EXCEPT !.dist_axis = 0,
                                 !.vis_mask = IF c.kind = "raw"
                                              THEN TimeAndBlDataOperate(c, par.sigma, par.freq_points)
                                              ELSE TimePolAndBlDataOperate(c, par.sigma, par.freq_points) ] ]
    ELSE [ warned |-> TRUE, tod |-> c ]

FlagProcess ==
    /\ pc = "flag"
    /\ nrun < MaxRuns
    /\ \E o \in { FlagProcessOutcome(tod, params) } :
          /\ tod' = o.tod
          /\ warned' = o.warned
    /\ before' = tod
    /\ nrun' = nrun + 1
    /\ UNCHANGED << params, notflag >>

\* ------------------------------------------------- containers to be flagged
\* the sample values: of modulus 0, 1 and 10
FlagVals == { << 0, 0 >>, << 0, 1 >>, << 6, 8 >> }
\* The masks: nothing masked, or one frequency masked.
FlagMasks == { [ f \in 1..NFlagFreq |-> f = g ] : g \in 0..NFlagFreq }
\* The first columns: samples of non-decreasing modulus (the other columns
\* hold them rotated).
FlagCols ==
    { col \in [1..NFlagFreq -> FlagVals] :
        \A f \in 1..(NFlagFreq - 1) : Norm2(col[f]) <= Norm2(col[f + 1]) }
Rot(f, c) == ((f - 1 + c) % NFlagFreq) + 1

\* A container of NTime times, NFlagFreq frequencies and NFlagBl baselines
\* (and the four polarizations when it is a Timestream).  Its first column
\* holds the samples col and the mask msk; column number c holds the samples
\* rotated by c frequencies, under the same mask.
FlagContainer(kind, axis, col, msk) ==
    [ kind |-> kind, nfreq |-> NFlagFreq, npol |-> 4, nbl |-> NFlagBl, dist_axis |-> axis,
      vis |-> IF kind = "raw"
              THEN [ t \in Times |-> [ f \in 1..NFlagFreq |-> [ b \in 1..NFlagBl |->
                        col[Rot(f, (t - 1) * NFlagBl + (b - 1))] ] ] ]
              ELSE [ t \in Times |-> [ f \in 1..NFlagFreq |-> [ p \in 1..4 |-> [ b \in 1..NFlagBl |->
                        col[Rot(f, ((t - 1) * 4 + (p - 1)) * NFlagBl + (b - 1))] ] ] ] ],
      vis_mask |-> IF kind = "raw"
              THEN [ t \in Times |-> [ f \in 1..NFlagFreq |-> [ b \in 1..NFlagBl |-> msk[f] ] ] ]
              ELSE [ t \in Times |-> [ f \in 1..NFlagFreq |-> [ p \in 1..4 |-> [ b \in 1..NFlagBl |->
                        msk[f] ] ] ] ] ]

NoParams == [ sigma |-> 0, freq_points |-> 0 ]

InitSelect ==
    /\ infile \in InFiles
    /\ bl_select = None
    /\ feed_select_ = None
    /\ channel_select_ = None
    /\ last = None
    /\ prev = None
    /\ failed = None
    /\ pc = "file"
    /\ rt = NoContainer
    /\ ts = NoContainer
    /\ call = NoCall

NoFlag ==
    /\ tod = NoContainer
    /\ params = NoParams
    /\ before = NoContainer
    /\ nrun = 0
    /\ warned = FALSE

NoRpw == [ called |-> FALSE ]
NoTask ==
    /\ stage = "none"
    /\ no_input = FALSE
    /\ taskpar = [ pol |-> "xx", simulate |-> FALSE ]
    /\ Tod_class = "TimestreamCommon"
    /\ rpw = NoRpw
    /\ niter = 0

NoDsets ==
    /\ srcd = [ names |-> {} ]
    /\ sepd = [ made |-> FALSE ]

NoWork ==
    /\ job = [ stage |-> "none" ]
    /\ wpc = << >>
    /\ wait = << >>
    /\ wdist = << >>

NoMm ==
    /\ mm = NoContainer
    /\ mmpar = [ simulate |-> FALSE ]
    /\ mmbefore = NoContainer

\* no file is open and no container is loaded; p is the part that runs
NoSelect(p) ==
    /\ infile = [ feedno |-> << >>, channo |-> << >>, blorder |-> << >> ]
    /\ bl_select = None
    /\ feed_select_ = None
    /\ channel_select_ = None
    /\ last = None
    /\ prev = None
    /\ failed = None
    /\ pc = p
    /\ rt = NoContainer
    /\ ts = NoContainer
    /\ call = NoCall

Init == InitSelect /\ NoFlag /\ NoTask /\ NoDsets /\ NoWork /\ NoMm

Next ==
    \/ \E value \in Values, corr \in Corrs : FeedSelect(value, corr)
    \/ \E axis \in 0..2, m \in MaskPats : LoadAll(axis, m)
    \/ \E keep \in BOOLEAN : Rt2tsProcess(keep)

Spec == Init /\ [][Next]_vars

\* The flag task alone: it is handed a loaded container of either kind.
InitFlag ==
    /\ NoSelect("flag")
    /\ NoTask
    /\ NoDsets
    /\ NoWork
    /\ NoMm
    /\ \E kind \in {"raw", "ts"}, axis \in 0..1, col \in FlagCols, msk \in FlagMasks :
          tod = FlagContainer(kind, axis, col, msk)
    /\ params \in [ sigma : 1..MaxSigma, freq_points : (NFlagFreq - 1)..(NFlagFreq + 1) ]
    /\ before = NoContainer
    /\ nrun = 0
    /\ warned = FALSE

NextFlag == FlagProcess

SpecFlag == InitFlag /\ [][NextFlag]_vars

\* ------------------------------------------------------- read_process_write
Stages == { "Flag", "Rt2ts", "MapMaking" }
TodClasses == { "RawTimestream", "Timestream" }
\* The inputs of a read_process_write call: no tod and no input file, no tod
\* and input files whose first holds a vis dataset of ndim dimensions, or a tod
\* passed in, an instance of cls.  tel is the array type the data names.
Telescopes == { "dish", "cylinder", "unknown" }
Inputs ==
    { [ src |-> "nofiles", ndim |-> 0, cls |-> "none", tel |-> "dish" ] }
    \cup { [ src |-> "files", ndim |-> d, cls |-> "none", tel |-> t ] : d \in 2..4, t \in Telescopes }
    \cup { [ src |-> "arg", ndim |-> 0, cls |-> c, tel |-> t ] : c \in TodClasses \cup { "other" }, t \in Telescopes }

\* the kind of container the input holds
ActualKind(inp) ==
    CASE inp.src = "files" /\ inp.ndim = 3 -> "RawTimestream"
      [] inp.src = "files" /\ inp.ndim = 4 -> "Timestream"
      [] inp.src = "arg" /\ inp.cls \in TodClasses -> inp.cls
      [] OTHER -> "other"

\* read_process_write, the input not being None or there being input files:
\* the _Tod_class it sets, or the error it raises
KeepTodClass(cur, inp) ==
    IF cur # "TimestreamCommon" THEN [ cls |-> cur, err |-> "none" ]
    ELSE IF ActualKind(inp) = "other" THEN [ cls |-> cur, err |-> "ValueError" ]
    ELSE [ cls |-> ActualKind(inp), err |-> "none" ]
ResolveTodClass(cur, inp) ==
    IF inp.src = "files"
    THEN CASE inp.ndim = 3 -> [ cls |-> "RawTimestream", err |-> "none" ]
           [] inp.ndim = 4 -> [ cls |-> "Timestream", err |-> "none" ]
           [] OTHER -> [ cls |-> cur, err |-> "RuntimeError" ]
    ELSE CASE inp.cls = "RawTimestream" -> [ cls |-> "RawTimestream", err |-> "none" ]
           [] inp.cls = "Timestream" -> [ cls |-> "Timestream", err |-> "none" ]
           [] OTHER -> [ cls |-> cur, err |-> "ValueError" ]

\* data_select / subset_select: the polarization selection is made when
\* _Tod_class is Timestream
PolSelected(cls) == cls = "Timestream"

\* Flag.process: the container it was given
FlagStage(kind) == { [ err |-> "none", out |-> kind ] }

\* Rt2ts.process: the Timestream separate_pol_and_bl returns for a
\* RawTimestream.  What a Timestream does with the call is not in the source:
\* either outcome.
Rt2tsStage(kind) ==
    IF kind = "RawTimestream" THEN { [ err |-> "none", out |-> "Timestream" ] }
    ELSE { [ err |-> "AttributeError", out |-> "none" ], [ err |-> "none", out |-> "Timestream" ] }

\* MapMaking.process: the assertion, the array type, the pol parameter, and
\* the object returned, a map-making timestream
MapMakingAnyKind(kind, tel, par) ==
    IF tel = "unknown" THEN { [ err |-> "RuntimeError", out |-> "none" ] }
    ELSE IF ~ par.simulate /\ par.pol \notin { "xx", "yy", "I", "all" }
    THEN { [ err |-> "ValueError", out |-> "none" ] }
    ELSE { [ err |-> "none", out |-> "fmmode.Timestream" ] }
MapMakingStage(kind, tel, par) ==
    IF kind # "Timestream" THEN { [ err |-> "AssertionError", out |-> "none" ] }
    ELSE IF tel = "unknown" THEN { [ err |-> "RuntimeError", out |-> "none" ] }
    ELSE IF ~ par.simulate /\ par.pol \notin { "xx", "yy", "I", "all" }
    THEN { [ err |-> "ValueError", out |-> "none" ] }
    ELSE { [ err |-> "none", out |-> "fmmode.Timestream" ] }

Process(st, kind, tel, par) ==
    CASE st = "Flag" -> FlagStage(kind)
      [] st = "Rt2ts" -> Rt2tsStage(kind)
      [] st = "MapMaking" -> MapMakingStage(kind, tel, par)

\* What a call did: the input, the selection method run and the _Tod_class
\* it ran under, the error raised, the object process returned (and, added by
\* read_process_write, the _Tod_class the call found).
Done(inp, cls, sel, o) ==
    [ called |-> TRUE, inp |-> inp, actual |-> ActualKind(inp), selected |-> sel,
      cls_at_select |-> cls, pol_selected |-> sel # "none" /\ PolSelected(cls),
      processed |-> o.err = "none" /\ o.out # "none", err |-> o.err, out |-> o.out ]
Nothing(e) == [ err |-> e, out |-> "none" ]

\* TaskTimestream.read_process_write(tod), with the base class's read ->
\* process -> write: the calls it can be seen to have made, with the
\* _Tod_class it leaves
ReadProcessWriteOutcomes(st, noin, par, cur, inp) ==
    IF noin
    THEN IF inp.src = "arg"
         THEN { [ cls |-> cur, rpw |-> Done(inp, cur, "none", Nothing("RuntimeError")) ] }
         ELSE { [ cls |-> cur, rpw |-> Done(inp, cur, "none", Nothing("none")) ] }
    ELSE IF inp.src = "nofiles"
    THEN { [ cls |-> cur, rpw |-> Done(inp, cur, "none", Nothing("none")) ] }
    ELSE UNION { IF r.err # "none"
                 THEN { [ cls |-> r.cls, rpw |-> Done(inp, r.cls, "none", Nothing(r.err)) ] }
                 ELSE { [ cls |-> r.cls,
                          rpw |-> Done(inp, r.cls,
                                       IF inp.src = "files" THEN "data_select" ELSE "subset_select", o) ]
                        : o \in Process(st, r.cls, inp.tel, par) }
                 : r \in { ResolveTodClass(cur, inp) } }

ReadProcessWrite(inp) ==
    /\ pc = "task"
    /\ niter < MaxIter
    /\ \E o \in ReadProcessWriteOutcomes(stage, no_input, taskpar, Tod_class, inp) :
          /\ Tod_class' = o.cls
          /\ rpw' = [ cls_before |-> Tod_class ] @@ o.rpw
    /\ niter' = niter + 1
    /\ UNCHANGED << stage, no_input, taskpar, nottask >>

InitTask ==
    /\ NoSelect("task")
    /\ NoFlag
    /\ NoDsets
    /\ NoWork
    /\ NoMm
    /\ stage \in Stages
    /\ no_input \in BOOLEAN
    /\ taskpar \in [ pol : { "xx", "zz" }, simulate : BOOLEAN ]
    /\ Tod_class = "TimestreamCommon"
    /\ rpw = NoRpw
    /\ niter = 0

NextTask == \E inp \in Inputs : ReadProcessWrite(inp)

SpecTask == InitTask /\ [][NextTask]_vars

\* ------------------------------------ separate_pol_and_bl: the other datasets
\* None in an axis order
NoAxis == 0 - 1
\* The datasets a source may hold, with the table that names each
\* (_main_axes_ordered_datasets_, _time_ordered_datasets_,
\* _feed_ordered_datasets_, or none) and its axis order there.
SrcRole(n) ==
    CASE n = "vis"         -> [ cat |-> "main", axes |-> << 0, 1, 2 >> ]
      [] n = "vis_mask"    -> [ cat |-> "main_axes", axes |-> << 0, 1, 2 >> ]
      [] n = "blorder"     -> [ cat |-> "main_axes", axes |-> << 2 >> ]
      [] n = "sec1970"     -> [ cat |-> "main_axes", axes |-> << 0 >> ]
      [] n = "freq"        -> [ cat |-> "main_axes", axes |-> << 1 >> ]
      [] n = "noaxis"      -> [ cat |-> "main_axes", axes |-> << NoAxis >> ]
      [] n = "bl_extra"    -> [ cat |-> "main_axes", axes |-> << 2 >> ]
      [] n = "weather"     -> [ cat |-> "time", axes |-> << 0 >> ]
      [] n = "feedno"      -> [ cat |-> "feed", axes |-> << 0 >> ]
      [] n = "channo"      -> [ cat |-> "feed", axes |-> << 0 >> ]
      [] n = "antpointing" -> [ cat |-> "feed", axes |-> << NoAxis, 0 >> ]
      [] n = "misc_common" -> [ cat |-> "common", axes |-> << >> ]
      [] n = "misc_dist"   -> [ cat |-> "distributed", axes |-> << >> ]
RawDsets == { "vis", "vis_mask", "blorder", "feedno", "channo" }
MoreDsets == { "sec1970", "freq", "noaxis", "bl_extra", "weather", "antpointing",
               "misc_common", "misc_dist" }

\* self.bl_ordered_datasets: the main-axes-ordered datasets whose axis order
\* names the baseline axis
BlOrderedDatasets(names) ==
    { n \in names : SrcRole(n).cat \in { "main", "main_axes" }
                    /\ \E i \in DOMAIN SrcRole(n).axes :
                          /\ SrcRole(n).axes[i] # NoAxis
                          /\ MainDataAxes[SrcRole(n).axes[i] + 1] = "baseline" }

\* the last integer of an axis order, NoAxis when it has none
LastAxis(axes) ==
    IF \A i \in DOMAIN axes : axes[i] = NoAxis THEN NoAxis
    ELSE axes[CHOOSE i \in DOMAIN axes : axes[i] # NoAxis /\ \A j \in DOMAIN axes : j > i => axes[j] = NoAxis]

\* whether the copy loop passes over the dataset
SkippedNone(names, n) == n \in { "vis", "vis_mask" } \/ n \in BlOrderedDatasets(names)
Skipped(names, n) ==
    \/ n \in { "vis", "vis_mask" }
    \/ SrcRole(n).cat = "main_axes" /\ n \in BlOrderedDatasets(names)
    \/ SrcRole(n).cat = "feed" /\ n = "channo"

\* the datasets separate_pol_and_bl creates itself
CreatedDsets ==
    [ n \in { "vis", "vis_mask", "pol", "blorder" } |->
        CASE n = "vis"      -> [ cat |-> "main", axes |-> << 0, 1, 2, 3 >> ]
          [] n = "vis_mask" -> [ cat |-> "main_axes", axes |-> << 0, 1, 2, 3 >> ]
          [] n = "pol"      -> [ cat |-> "main_axes", axes |-> << 2 >> ]
          [] n = "blorder"  -> [ cat |-> "main_axes", axes |-> << 3 >> ] ]

\* whether no extra baseline-ordered dataset is found
NoExtraCheck(names) == TRUE
NoExtraBlOrdered(names) == BlOrderedDatasets(names) \ { "vis", "vis_mask", "blorder" } = {}

\* separate_pol_and_bl after the gather: the error raised, or the datasets of
\* the Timestream returned.  lookup_ok: no _get_ind call raised.
SeparateDatasets(names, lookup_ok) ==
    LET copied == { n \in names : ~ Skipped(names, n) }
    IN  IF ~ lookup_ok THEN [ made |-> TRUE, err |-> "ValueError", returned |-> FALSE ]
        ELSE IF ~ NoExtraBlOrdered(names)
        THEN [ made |-> TRUE, err |-> "RuntimeError_bl_ordered", returned |-> FALSE ]
        ELSE IF \E n \in copied : SrcRole(n).cat = "main_axes" /\ LastAxis(SrcRole(n).axes) = NoAxis
        THEN [ made |-> TRUE, err |-> "RuntimeError_axis_order", returned |-> FALSE ]
        ELSE [ made |-> TRUE, err |-> "none", returned |-> TRUE,
               dsets |-> [ n \in copied |-> SrcRole(n) ] @@ CreatedDsets ]

SeparateOtherDatasets ==
    /\ pc = "dsets"
    /\ ~ sepd.made
    /\ sepd' = SeparateDatasets(srcd.names, srcd.lookup_ok)
    /\ UNCHANGED << srcd, notdset >>

InitDsets ==
    /\ NoSelect("dsets")
    /\ NoFlag
    /\ NoTask
    /\ NoWork
    /\ NoMm
    /\ srcd \in [ names : { RawDsets \cup more : more \in SUBSET MoreDsets }, lookup_ok : BOOLEAN ]
    /\ sepd = [ made |-> FALSE ]

NextDsets == SeparateOtherDatasets

SpecDsets == InitDsets /\ [][NextDsets]_vars

\* -------------------------------------------------------- MapMaking.process
\* np.int(np.around(0.5 * (float(nt) / phi_size))): nt / (2 phi_size) rounded
\* to the nearest integer, a half to the even one
RollLen(nt, phi_size) ==
    LET q == nt \div (2 * phi_size)
        r == nt % (2 * phi_size)
    IN  IF r < phi_size THEN q
        ELSE IF r > phi_size THEN q + 1
        ELSE IF q % 2 = 0 THEN q ELSE q + 1

\* np.roll(a, k, axis=0)
NoRoll(a, k) == a
Roll(a, k) == [ i \in DOMAIN a |-> a[((i - 1 - k) % Len(a)) + 1] ]

\* ts.local_vis_mask[day_inds] = True, day_inds the times whose local_hour
\* lies in mask_time_range, both ends included
MaskDaytime(c, range) ==
    [ t \in DOMAIN c.vis_mask |->
        IF c.local_hour[t] >= range[1] /\ c.local_hour[t] <= range[2]
        THEN [ f \in DOMAIN c.vis_mask[t] |-> TRUE ]
        ELSE c.vis_mask[t] ]

\* MapMaking.process up to the time average: the container it leaves
MapMakingPrepare(c, par) ==
    LET onbl     == [ c EXCEPT !.dist_axis = 3 ]
        masked   == IF par.mask_daytime
                    THEN [ onbl EXCEPT !.vis_mask = MaskDaytime(c, par.mask_time_range) ]
                    ELSE onbl
        roll_len == RollLen(Len(c.vis), par.phi_size)
    IN  IF par.simulate THEN onbl
        ELSE [ masked EXCEPT !.vis = Roll(masked.vis, roll_len),
                             !.vis_mask = Roll(masked.vis_mask, roll_len),
                             !.ra_dec = Roll(masked.ra_dec, roll_len) ]

MapMakingProcess ==
    /\ pc = "mapmaking"
    /\ mmbefore = NoContainer
    /\ mm' = MapMakingPrepare(mm, mmpar)
    /\ mmbefore' = mm
    /\ UNCHANGED << mmpar, notmm >>

\* the local hours of the samples
Hours == { 5, 6, 22, 23 }
\* A Timestream container of nt times: sample (t, f) holds the value (t, f),
\* masked after the pattern m.
MmContainer(hour, m, axis) ==
    [ loaded |-> TRUE, dist_axis |-> axis, local_hour |-> hour,
      vis      |-> [ t \in DOMAIN hour |-> [ f \in Freqs |-> << t, f >> ] ],
      vis_mask |-> [ t \in DOMAIN hour |-> [ f \in Freqs |-> FileMask(m, t, f, 1) ] ],
      ra_dec   |-> [ t \in DOMAIN hour |-> t ] ]

InitMm ==
    /\ NoSelect("mapmaking")
    /\ NoFlag
    /\ NoTask
    /\ NoDsets
    /\ NoWork
    /\ \E nt \in 1..MaxNt, m \in MaskPats, axis \in { 0, 3 } :
          \E hour \in [1..nt -> Hours] : mm = MmContainer(hour, m, axis)
    /\ mmpar \in [ simulate : BOOLEAN, mask_daytime : BOOLEAN,
                   mask_time_range : { << 6, 22 >>, << 0, 5 >> }, phi_size : { 1, 3 } ]
    /\ mmbefore = NoContainer

NextMm == MapMakingProcess

SpecMm == InitMm /\ [][NextMm]_vars

\* ------------------------------------------- the workers' collective calls
Ranks == 0..(NWorkers - 1)
NoWait == << >>
\* the length of rank r's share of an axis of n entries split over the workers
LocalLen(n, r) == (n \div NWorkers) + (IF r < n % NWorkers THEN 1 ELSE 0)

\* The jobs: a stage with the parameters and the replicated values its
\* collective calls can depend on (the others held at a default).
Job(st, axis, nfreq, fp, keep, ok, sim, tel, pol) ==
    [ stage |-> st, dist_axis |-> axis, nfreq |-> nfreq, freq_points |-> fp,
      keep_dist_axis |-> keep, lookup_ok |-> ok, simulate |-> sim, tel |-> tel, pol |-> pol ]
Jobs ==
    { Job("Flag", axis, n, fp, FALSE, TRUE, FALSE, "dish", "xx") :
        axis \in 0..2, n \in 1..NFlagFreq, fp \in 1..NFlagFreq }
    \cup { Job("Rt2ts", axis, 1, 1, keep, ok, FALSE, "dish", "xx") :
        axis \in 0..2, keep \in BOOLEAN, ok \in BOOLEAN }
    \cup { Job("MapMaking", axis, 1, 1, FALSE, TRUE, sim, tel, pol) :
        axis \in 0..2, sim \in BOOLEAN, tel \in Telescopes, pol \in { "xx", "zz" } }

\* ts.freq.shape[0] as rank r reads it, its container being on axis: the
\* global length
NfreqLocal(j, r, axis) == IF axis = 1 THEN LocalLen(j.nfreq, r) ELSE j.nfreq
Nfreq(j, r, axis) == j.nfreq

At(w, pos) == [ w EXCEPT !.pos = pos ]
Collective(name, arg, w) == [ op |-> "collective", call |-> << name, arg >>, next |-> w ]
Local(w) == [ op |-> "local", call |-> NoWait, next |-> w ]
Raise(w) == [ op |-> "local", call |-> NoWait, next |-> At(w, "raised") ]

\* Flag.process on rank r
FlagSteps(j, r, w, axis) ==
    CASE w.pos = "start" ->
           IF Nfreq(j, r, axis) >= j.freq_points
           THEN Collective("redistribute", 0, At(w, "operate"))
           ELSE Local(At(w, "return"))
      [] w.pos = "operate" -> Local(At(w, "return"))

\* separate_pol_and_bl on rank r
Rt2tsSteps(j, r, w, axis) ==
    CASE w.pos = "start" ->
           IF MustRedistribute(axis)
           THEN Collective("redistribute", 0,
                           [ w EXCEPT !.pos = "gather", !.orig = axis, !.keep = FALSE ])
           ELSE Local([ w EXCEPT !.pos = "gather", !.orig = axis, !.keep = j.keep_dist_axis ])
      [] w.pos = "gather" -> IF j.lookup_ok THEN Local(At(w, "restore")) ELSE Raise(w)
      [] w.pos = "restore" ->
           IF w.keep THEN Collective("redistribute", w.orig, At(w, "return"))
           ELSE Local(At(w, "return"))

\* MapMaking.process on rank r
MapMakingSteps(j, r, w, axis) ==
    CASE w.pos = "start" -> Collective("redistribute", 3, At(w, "gather_bl"))
      [] w.pos = "gather_bl" -> Collective("gather_array", 0, At(w, "telescope"))
      [] w.pos = "telescope" ->
           IF j.tel = "unknown" THEN Raise(w)
           ELSE IF j.simulate THEN Local(At(w, "return"))
           ELSE Local(At(w, "average"))
      [] w.pos = "average" ->
           IF j.pol \notin { "xx", "yy", "I", "all" } THEN Raise(w)
           ELSE Collective("wrap_redistribute", 0, At(w, "return"))

StepOf(j, r, w, axis) ==
    CASE j.stage = "Flag" -> FlagSteps(j, r, w, axis)
      [] j.stage = "Rt2ts" -> Rt2tsSteps(j, r, w, axis)
      [] j.stage = "MapMaking" -> MapMakingSteps(j, r, w, axis)

Running(r) == wpc[r].pos \notin { "return", "raised" } /\ wait[r] = NoWait

\* rank r runs up to its next collective call, or to the end
WorkerLocal(r) ==
    /\ pc = "workers"
    /\ Running(r)
    /\ \E s \in { StepOf(job, r, wpc[r], wdist[r]) } :
          /\ s.op = "local"
          /\ wpc' = [ wpc EXCEPT ![r] = s.next ]
    /\ UNCHANGED << job, wait, wdist, notwork >>

\* rank r enters a collective call
WorkerEnter(r) ==
    /\ pc = "workers"
    /\ Running(r)
    /\ \E s \in { StepOf(job, r, wpc[r], wdist[r]) } :
          /\ s.op = "collective"
          /\ wait' = [ wait EXCEPT ![r] = s.call ]
          /\ wpc' = [ wpc EXCEPT ![r] = [ s.next EXCEPT !.log = Append(@, s.call) ] ]
    /\ UNCHANGED << job, wdist, notwork >>

\* a collective call every rank has entered returns on every rank
CollectiveReturn ==
    /\ pc = "workers"
    /\ \A r \in Ranks : wait[r] # NoWait
    /\ \A r \in Ranks : wait[r] = wait[0]
    /\ wait' = [ r \in Ranks |-> NoWait ]
    /\ wdist' = [ r \in Ranks |-> IF wait[0][1] = "redistribute" THEN wait[0][2] ELSE wdist[r] ]
    /\ UNCHANGED << job, wpc, notwork >>

InitWork ==
    /\ NoSelect("workers")
    /\ NoFlag
    /\ NoTask
    /\ NoDsets
    /\ NoMm
    /\ job \in Jobs
    /\ wpc = [ r \in Ranks |-> [ pos |-> "start", orig |-> 0, keep |-> FALSE, log |-> << >> ] ]
    /\ wait = [ r \in Ranks |-> NoWait ]
    /\ wdist = [ r \in Ranks |-> job.dist_axis ]

NextWork ==
    \/ \E r \in Ranks : WorkerLocal(r)
    \/ \E r \in Ranks : WorkerEnter(r)
    \/ CollectiveReturn

SpecWork == InitWork /\ [][NextWork]_vars

\* ------------------------------------------------------------------ claims
\* the channels the source's feedno / channo datasets assign to feed fd
FeedChans(src, fd) == src.channo[IndexOf(src.feedno, fd)]

\* the channel pair of polarization p for the baseline labelled (fi, fj)
LabelledPair(src, p, fi, fj) ==
    CASE p = 1 -> << FeedChans(src, fi)[1], FeedChans(src, fj)[1] >>
      [] p = 2 -> << FeedChans(src, fi)[2], FeedChans(src, fj)[2] >>
      [] p = 3 -> << FeedChans(src, fi)[1], FeedChans(src, fj)[2] >>
      [] p = 4 -> << FeedChans(src, fi)[2], FeedChans(src, fj)[1] >>

\* the raw visibility of a channel pair: the entry of the pair when blorder
\* holds it, the conjugate of the reversed pair's entry otherwise
RawVisOf(src, t, f, chp) ==
    IF IndexOf(src.blorder, chp) > 0
    THEN Some(src.vis[t][f][IndexOf(src.blorder, chp)])
    ELSE IF IndexOf(src.blorder, << chp[2], chp[1] >>) > 0
    THEN Some(Conj(src.vis[t][f][IndexOf(src.blorder, << chp[2], chp[1] >>)]))
    ELSE None

\* C1: in the container separate_pol_and_bl returns, the entry at
\* polarization p and at the baseline labelled (f_i, f_j) is the raw
\* visibility of the channel pair the source's feed -> channel map gives f_i
\* and f_j, whatever the order feedno is stored in.
C1_LabelledVisibility ==
    pc = "separated" =>
        \A b \in DOMAIN ts.blorder : \A p \in 1..4 : \A t \in Times : \A f \in Freqs :
            Some(ts.vis[t][f][p][b]) =
                RawVisOf(rt, t, f, LabelledPair(rt, p, ts.blorder[b][1], ts.blorder[b][2]))

\* C2 as claimed: the returned container is always distributed along time,
\* and the gather never runs on a source distributed along baseline.
C2_AlwaysTime ==
    pc = "separated" =>
        /\ TsDataAxes[ts.dist_axis + 1] = "time"
        /\ MainDataAxes[call.gather_axis + 1] # "baseline"

\* C2 as amended: the returned container is distributed along the axis the
\* source is distributed along at the gather, which is time for a source that
\* came in along time or baseline and frequency for one that came in along
\* frequency; the gather never runs on a source distributed along baseline.
C2_DistAxisOfGather ==
    pc = "separated" =>
        /\ ts.dist_axis = call.gather_axis
        /\ TsDataAxes[ts.dist_axis + 1] =
              IF MainDataAxes[call.original_dist_axis + 1] = "frequency"
              THEN "frequency" ELSE "time"
        /\ MainDataAxes[call.gather_axis + 1] # "baseline"

C2_Witness ==
    /\ pc = "separated"
    /\ MainDataAxes[call.original_dist_axis + 1] = "baseline"
    /\ TsDataAxes[ts.dist_axis + 1] = "time"

\* C3: with keep_dist_axis = True the source is, on return, distributed along
\* the axis it was distributed along before the call.
C3_KeepDistAxis ==
    (pc = "separated" /\ call.keep_dist_axis) => rt.dist_axis = call.original_dist_axis

\* a feed_select call computed the selection the container holds
SelActive ==
    /\ pc \in {"file", "select_error"}
    /\ last # None
    /\ ~ last[1].ret
    /\ feed_select_ # None

PairSet(bl) == { bl[1], bl[2] }

\* C4: for the feeds selected, the indices corr = 'all' chooses are the union
\* of those corr = 'cross' and corr = 'auto' choose, no index twice, and the
\* cross and auto indices are disjoint.
C4_AllIsCrossPlusAuto ==
    /\ (SelActive /\ pc = "file") =>
         \A a \in { SelectFeeds(infile, infile.feedno, feed_select_[1], "all") } :
         \A c \in { SelectFeeds(infile, infile.feedno, feed_select_[1], "cross") } :
         \A u \in { SelectFeeds(infile, infile.feedno, feed_select_[1], "auto") } :
            /\ bl_select = Some((CASE last[1].corr = "all" -> a
                                   [] last[1].corr = "cross" -> c
                                   [] last[1].corr = "auto" -> u).indices)
            /\ (~ a.err /\ ~ c.err /\ ~ u.err) =>
                 /\ Range(a.indices) = Range(c.indices) \cup Range(u.indices)
                 /\ Range(c.indices) \cap Range(u.indices) = {}
                 /\ \A i, j \in DOMAIN a.indices : i < j => a.indices[i] < a.indices[j]
    \* the early return of value = (0, None), corr = 'all' on a container with
    \* no selection yet keeps every baseline of the file
    /\ (pc = "file" /\ last # None /\ bl_select = None) =>
         \A c \in { SelectFeeds(infile, infile.feedno, infile.feedno, "cross") } :
         \A u \in { SelectFeeds(infile, infile.feedno, infile.feedno, "auto") } :
            (~ c.err /\ ~ u.err) =>
                Range(SelectedBls(infile, bl_select)) = Range(c.indices) \cup Range(u.indices)

C4_Witness ==
    /\ SelActive /\ pc = "file"
    /\ last[1].corr = "all"
    /\ Len(feed_select_[1]) >= 2
    /\ Len(SelectFeeds(infile, infile.feedno, feed_select_[1], "cross").indices) > 0
    /\ Len(SelectFeeds(infile, infile.feedno, feed_select_[1], "auto").indices) > 0
    /\ Len(bl_select[1]) = Len(SelectFeeds(infile, infile.feedno, feed_select_[1], "cross").indices)
                             + Len(SelectFeeds(infile, infile.feedno, feed_select_[1], "auto").indices)

\* the channel pairs between two distinct feeds of F
CrossPairSet(file, F) ==
    { {c, d} : << c, d >> \in UNION { Range(FeedChans(file, f1)) \X Range(FeedChans(file, f2)) :
                                       << f1, f2 >> \in { q \in F \X F : q[1] # q[2] } } }

\* C5: corr = 'cross' over the feeds F resolves to the channel pairs between
\* every two distinct feeds of F, four per feed pair, and selects exactly the
\* baseline indices of those pairs, ascending, none of them a baseline of a
\* feed with itself.
C5_CrossSelection ==
    (SelActive /\ pc = "file" /\ last[1].corr = "cross") =>
        \A F \in { Range(feed_select_[1]) } :
        \A want \in { CrossPairSet(infile, F) } :
            /\ Range(CrossPairs(feed_select_[1], infile.feedno, infile.channo)) = want
            /\ 2 * Cardinality(want) = 4 * Cardinality(F) * (Cardinality(F) - 1)
            /\ bl_select = Some(SortSet({ k \in DOMAIN infile.blorder : PairSet(infile.blorder[k]) \in want }))
            /\ \A k \in Range(bl_select[1]) : \A fd \in Range(infile.feedno) :
                  ~ (PairSet(infile.blorder[k]) \subseteq Range(FeedChans(infile, fd)))
            /\ (F = {1, 2} /\ FeedChans(infile, 1) = << 0, 1 >> /\ FeedChans(infile, 2) = << 2, 3 >>)
                  => want = { {0, 2}, {0, 3}, {1, 2}, {1, 3} }

C5_Witness ==
    /\ SelActive /\ pc = "file" /\ last[1].corr = "cross"
    /\ Range(feed_select_[1]) = {1, 2}
    /\ FeedChans(infile, 1) = << 0, 1 >> /\ FeedChans(infile, 2) = << 2, 3 >>
    /\ Len(bl_select[1]) = 4

\* blorder holds the channel pair in one orientation or the other
HoldsPair(blorder, cps) == \E k \in DOMAIN blorder : PairSet(blorder[k]) = cps

\* C6: a channel pair the baseline order holds only reversed is resolved to
\* that baseline's index and gathered conjugated; when the baseline order
\* holds a required pair in neither orientation the operation fails, and
\* selects or gathers nothing.
C6_PairLookup ==
    \* feed_select: the selection is the baselines of the required pairs
    /\ SelActive =>
         \A need \in { Range(ChannelPairs(last[1].corr, feed_select_[1], infile.feedno, infile.channo)) } :
            /\ \A cps \in need : \E k \in Range(bl_select[1]) : PairSet(infile.blorder[k]) = cps
            /\ \A k \in Range(bl_select[1]) : PairSet(infile.blorder[k]) \in need
    /\ (pc \in {"file", "select_error"} /\ last = None) => (bl_select = None /\ feed_select_ = None)
    /\ pc = "select_error" =>
         /\ failed # None
         /\ \E cps \in Range(ChannelPairs(failed[1].corr, failed[1].feeds, infile.feedno, infile.channo)) :
               ~ HoldsPair(infile.blorder, cps)
    \* separate_pol_and_bl: every lookup, and the column gathered for it
    /\ call.made =>
         /\ \A p \in 1..4 : \A b \in DOMAIN call.list[p] : \A e \in { call.list[p][b] } :
               /\ (e.ok /\ ~ e.conj) => rt.blorder[e.ind] = e.chp
               /\ (e.ok /\ e.conj) => /\ IndexOf(rt.blorder, e.chp) = 0
                                      /\ rt.blorder[e.ind] = << e.chp[2], e.chp[1] >>
               /\ ~ e.ok => ~ HoldsPair(rt.blorder, PairSet(e.chp))
               /\ pc = "separated" =>
                     /\ e.ok
                     /\ \A t \in Times : \A f \in Freqs :
                           ts.vis[t][f][p][b] = IF e.conj THEN Conj(rt.vis[t][f][e.ind])
                                                ELSE rt.vis[t][f][e.ind]
         /\ pc = "separate_error" =>
               /\ ts = NoContainer
               /\ \E p \in 1..4 : \E b \in DOMAIN call.list[p] : ~ call.list[p][b].ok

C6_Witness ==
    /\ pc = "separated"
    /\ bl_select # None
    /\ \E b \in DOMAIN call.list[1] :
          /\ call.list[1][b].conj
          /\ ts.vis[1][1][1][b] = Conj(rt.vis[1][1][call.list[1][b].ind])

\* C7: feed_select(F1, corr) followed by feed_select(F2, corr), F2 among the
\* feeds F1 left, leaves the baseline indices, the recorded feeds and the
\* recorded channels of one feed_select of the feeds common to F1 and F2.
C7_SelectTwice ==
    (pc = "file" /\ prev # None) =>
        \A one \in { FeedSelectOutcome(infile, None,
                        ListVal(Range(prev[1].remaining) \cap prev[1].list), last[1].corr) } :
            /\ ~ one.err /\ ~ one.ret
            /\ bl_select = Some(one.indices)
            /\ feed_select_ = Some(one.feeds)
            /\ channel_select_ = Some(one.chans)

C7_Witness ==
    /\ pc = "file" /\ prev # None
    /\ Range(prev[1].remaining) # prev[1].list
    /\ Len(bl_select[1]) > 0

\* C8: the returned container has the polarization axis xx, yy, xy, yx and a
\* baseline order listing the feed pairs (f_i, f_j), i <= j, of the sorted
\* feeds once each in ascending (i, j) order: n(n+1)/2 baselines, the length
\* of the main data's baseline axis.
C8_PolAndBaselineAxes ==
    pc = "separated" =>
        \A S \in { SortSet(Range(rt.feedno)) } :
            /\ ts.pol = << "xx", "yy", "xy", "yx" >>
            /\ 2 * Len(ts.blorder) = Len(S) * (Len(S) + 1)
            /\ \A b \in DOMAIN ts.blorder :
                  \E i, j \in DOMAIN S : i <= j /\ ts.blorder[b] = << S[i], S[j] >>
            /\ \A i, j \in DOMAIN S : i <= j => \E b \in DOMAIN ts.blorder : ts.blorder[b] = << S[i], S[j] >>
            /\ \A a, b \in DOMAIN ts.blorder :
                  a < b => \/ ts.blorder[a][1] < ts.blorder[b][1]
                           \/ ts.blorder[a][1] = ts.blorder[b][1] /\ ts.blorder[a][2] < ts.blorder[b][2]
            /\ \A t \in Times : \A f \in Freqs :
                  /\ Len(ts.vis[t][f]) = 4
                  /\ \A p \in 1..4 : Len(ts.vis[t][f][p]) = Len(ts.blorder)

C8_Witness ==
    /\ pc = "separated"
    /\ Len(rt.feedno) >= 2
    /\ rt.feedno # Sorted(rt.feedno)
    /\ Len(ts.blorder) >= 3

\* the raw baseline index the visibility at (t, f, p, b) was gathered from
GatheredFrom(t, f, p, b) ==
    { k \in DOMAIN rt.vis[t][f] :
        ts.vis[t][f][p][b] \in { rt.vis[t][f][k], Conj(rt.vis[t][f][k]) } }

\* C9: the returned container's mask has the shape of its main data, and
\* each mask entry is the source mask entry at the raw baseline index the
\* visibility beside it was gathered from, conjugated or not.
C9_MaskFollowsGather ==
    pc = "separated" =>
        /\ DOMAIN ts.vis_mask = DOMAIN ts.vis
        /\ \A t \in DOMAIN ts.vis :
              /\ DOMAIN ts.vis_mask[t] = DOMAIN ts.vis[t]
              /\ \A f \in DOMAIN ts.vis[t] :
                    /\ DOMAIN ts.vis_mask[t][f] = DOMAIN ts.vis[t][f]
                    /\ \A p \in DOMAIN ts.vis[t][f] :
                          /\ DOMAIN ts.vis_mask[t][f][p] = DOMAIN ts.vis[t][f][p]
                          /\ \A b \in DOMAIN ts.vis[t][f][p] :
                                /\ Cardinality(GatheredFrom(t, f, p, b)) = 1
                                /\ \A k \in GatheredFrom(t, f, p, b) :
                                      ts.vis_mask[t][f][p][b] = rt.vis_mask[t][f][k]

C9_Witness ==
    /\ pc = "separated"
    /\ \E t \in Times : \E f \in Freqs : \E p \in 1..4 : \E b \in DOMAIN ts.blorder :
          /\ call.list[p][b].conj
          /\ ts.vis_mask[t][f][p][b]
          /\ ts.blorder[b][1] # ts.blorder[b][2]


FlagPols(c) == IF c.kind = "raw" THEN {1} ELSE 1..c.npol
MaskAt(c, t, f, p, b) == IF c.kind = "raw" THEN c.vis_mask[t][f][b] ELSE c.vis_mask[t][f][p][b]
FlagEntries(c) == (DOMAIN c.vis) \X (1..c.nfreq) \X FlagPols(c) \X (1..c.nbl)

\* C10: after Flag.process every mask entry that was true before the call is
\* still true, and every visibility value is the one the container held
\* before the call.
C10_MaskOnlyGrows ==
    nrun >= 1 =>
        /\ tod.vis = before.vis
        /\ \A e \in FlagEntries(before) :
              MaskAt(before, e[1], e[2], e[3], e[4]) => MaskAt(tod, e[1], e[2], e[3], e[4])

\* a call that found a masked entry and masked further entries
C10_Witness ==
    /\ nrun >= 1
    /\ ~ warned
    /\ \E e \in FlagEntries(before) : MaskAt(before, e[1], e[2], e[3], e[4])
    /\ \E e \in FlagEntries(before) :
          ~ MaskAt(before, e[1], e[2], e[3], e[4]) /\ MaskAt(tod, e[1], e[2], e[3], e[4])


VisAt(c, t, f, p, b) == IF c.kind = "raw" THEN c.vis[t][f][b] ELSE c.vis[t][f][p][b]
FlagColumns(c) == (DOMAIN c.vis) \X FlagPols(c) \X (1..c.nbl)
\* the unmasked frequencies of the column k = (time, polarization, baseline)
ValidOf(c, k) == { f \in 1..c.nfreq : ~ MaskAt(c, k[1], f, k[2], k[3]) }
\* whether the column k of c has at least fp unmasked samples, one of which
\* lies more than sg standard deviations from the mean of the unmasked samples
HasOutlier(c, k, sg, fp) ==
    LET valid == ValidOf(c, k)
        n     == Cardinality(valid)
        a     == [ f \in 1..c.nfreq |-> Abs(VisAt(c, k[1], f, k[2], k[3])) ]
        s     == SumOver(a, valid)
        q     == SumOver([ f \in 1..c.nfreq |-> a[f] * a[f] ], valid)
    IN  /\ n >= fp
        /\ \E f \in valid : (n * a[f] - s) * (n * a[f] - s) > sg * sg * (n * q - s * s)
ColumnMask(c, k) == [ f \in 1..c.nfreq |-> MaskAt(c, k[1], f, k[2], k[3]) ]

\* C11 (as stated): a second run of the flag stage with the same sigma and
\* freq_points leaves the mask as the first run left it.
C11_SecondRunIdle == nrun >= 2 => tod.vis_mask = before.vis_mask

\* C11 (amended): a second run leaves a column's mask as the first run left
\* it exactly when, among the samples the first run left unmasked, there are
\* fewer than freq_points or none deviates from their mean by more than sigma
\* of their standard deviations.
C11_SecondRunFixedPoint ==
    nrun >= 2 =>
        \A k \in FlagColumns(before) :
            (ColumnMask(tod, k) = ColumnMask(before, k))
                <=> ~ HasOutlier(before, k, params.sigma, params.freq_points)

\* a second run that masked a sample the first run had left unmasked
C11_Witness ==
    /\ nrun >= 2
    /\ \E k \in FlagColumns(before) :
          /\ ColumnMask(tod, k) # ColumnMask(before, k)
          /\ HasOutlier(before, k, params.sigma, params.freq_points)


\* C12: Flag.process changes the mask of a column only if the global
\* frequency length is at least freq_points and the column had at least
\* freq_points unmasked samples; when the global length is below freq_points
\* the call warns and returns the container as it found it: no mask entry
\* changed, no redistribution.
C12_FlagOnlyWithEnoughPoints ==
    nrun >= 1 =>
        /\ \A k \in FlagColumns(before) :
              ColumnMask(tod, k) # ColumnMask(before, k) =>
                  /\ before.nfreq >= params.freq_points
                  /\ Cardinality(ValidOf(before, k)) >= params.freq_points
        /\ before.nfreq < params.freq_points =>
              /\ warned
              /\ tod = before
        /\ warned => before.nfreq < params.freq_points

\* a skipped call on a container distributed along frequency that holds a
\* sample far from the others
C12_Witness ==
    /\ nrun >= 1
    /\ warned
    /\ before.nfreq < params.freq_points
    /\ tod.dist_axis = 1
    /\ \E k \in FlagColumns(before) : HasOutlier(before, k, params.sigma, 1)


\* the raw blorder holds every unordered channel pair at most once
PairsOnce(blorder) ==
    \A k, l \in DOMAIN blorder :
        k # l => /\ blorder[k] # blorder[l]
                 /\ blorder[k] # << blorder[l][2], blorder[l][1] >>
\* the output slots (polarization, baseline) and the feed index pair of a slot
Slots == (1..4) \X (1..Len(ts.blorder))
SlotFeeds(s) == PairsFrom(1, Len(rt.feedno), 0)[s[2]]
SlotInd(s) == call.list[s[1]][s[2]].ind
SlotConj(s) == call.list[s[1]][s[2]].conj
UsedBy(k) == { s \in Slots : SlotInd(s) = k }

\* C19: when the raw blorder holds each unordered channel pair once and
\* every feed has two distinct channels, the slots of two different feeds map
\* one-to-one to raw baselines; for a feed with itself xy and yx map to the
\* same raw baseline with opposite conjugate flags, xx and yy to two further
\* ones; so a gathered raw baseline serves one slot, a feed's own x-y
\* baseline two.
C19_SlotsOneToOne ==
    ( /\ pc = "separated"
      /\ PairsOnce(rt.blorder)
      /\ \A i \in DOMAIN rt.channo : rt.channo[i][1] # rt.channo[i][2] ) =>
        /\ \A s, u \in Slots :
              ( /\ s # u
                /\ SlotFeeds(s)[1] < SlotFeeds(s)[2]
                /\ SlotFeeds(u)[1] < SlotFeeds(u)[2] ) => SlotInd(s) # SlotInd(u)
        /\ \A b \in 1..Len(ts.blorder) :
              SlotFeeds(<< 1, b >>)[1] = SlotFeeds(<< 1, b >>)[2] =>
                  /\ SlotInd(<< 3, b >>) = SlotInd(<< 4, b >>)
                  /\ SlotConj(<< 3, b >>) # SlotConj(<< 4, b >>)
                  /\ SlotInd(<< 1, b >>) # SlotInd(<< 2, b >>)
                  /\ SlotInd(<< 1, b >>) # SlotInd(<< 3, b >>)
                  /\ SlotInd(<< 2, b >>) # SlotInd(<< 3, b >>)
        /\ \A s \in Slots :
              UsedBy(SlotInd(s)) =
                  IF s[1] \in {3, 4} /\ SlotFeeds(s)[1] = SlotFeeds(s)[2]
                  THEN { << 3, s[2] >>, << 4, s[2] >> }
                  ELSE { s }

\* a separation of two feeds, one of whose cross slots is conjugated
C19_Witness ==
    /\ pc = "separated"
    /\ PairsOnce(rt.blorder)
    /\ Len(rt.feedno) >= 2
    /\ \E s \in Slots : SlotFeeds(s)[1] < SlotFeeds(s)[2] /\ SlotConj(s)
    /\ \E s \in Slots : SlotFeeds(s)[1] = SlotFeeds(s)[2] /\ s[1] = 3 /\ Cardinality(UsedBy(SlotInd(s))) = 2


\* the last call was given a Raw or a Timestream container by a task that
\* takes input
GivenContainer == rpw.called /\ ~ no_input /\ rpw.actual \in TodClasses

C15_ResolvedKind ==
    rpw.called =>
        /\ rpw.selected # "none" =>
              /\ rpw.cls_at_select = rpw.actual
              /\ rpw.pol_selected <=> rpw.actual = "Timestream"
              /\ rpw.selected = (IF rpw.inp.src = "files" THEN "data_select" ELSE "subset_select")
        /\ ( /\ rpw.inp.src = "arg" \/ (rpw.inp.src = "files" /\ ~ no_input)
             /\ rpw.actual = "other" ) =>
              /\ rpw.err \in { "RuntimeError", "ValueError" }
              /\ rpw.selected = "none"
              /\ ~ rpw.processed

\* a Timestream passed in to a task whose last input was a RawTimestream
C15_Witness ==
    /\ rpw.called
    /\ rpw.cls_before = "RawTimestream"
    /\ rpw.inp.src = "arg"
    /\ rpw.actual = "Timestream"
    /\ rpw.selected = "subset_select"
    /\ rpw.pol_selected


\* the source holds a baseline-ordered dataset besides vis, vis_mask and
\* blorder
HasExtraBl ==
    \E n \in srcd.names \ { "vis", "vis_mask", "blorder" } :
        \E i \in DOMAIN SrcRole(n).axes : SrcRole(n).axes[i] = 2

\* C16 (as stated): separate_pol_and_bl raises the error for an unexpected
\* baseline-ordered dataset, returning no container, whenever the source
\* holds such a dataset, and never otherwise.
C16_ExtraBlRejected ==
    sepd.made =>
        /\ sepd.err = "RuntimeError_bl_ordered" <=> HasExtraBl
        /\ HasExtraBl => ~ sepd.returned

\* C16 (amended): a source holding such a dataset never gets a container
\* back; the error raised is the one for the unexpected baseline-ordered
\* dataset exactly when, besides, every channel pair was found in the raw
\* baseline order (a missing pair raises the lookup's error first).
C16_ExtraBlRejectedAfterLookup ==
    sepd.made =>
        /\ sepd.err = "RuntimeError_bl_ordered" <=> (HasExtraBl /\ srcd.lookup_ok)
        /\ HasExtraBl => ~ sepd.returned
        /\ (HasExtraBl /\ ~ srcd.lookup_ok) => sepd.err = "ValueError"

\* a source with an extra baseline-ordered dataset, all pairs found
C16_Witness ==
    /\ sepd.made
    /\ HasExtraBl
    /\ srcd.lookup_ok
    /\ sepd.err = "RuntimeError_bl_ordered"
    /\ ~ sepd.returned

\* the role of a dataset by axis names, in the source and in the Timestream
NamedAxes(role, table) ==
    [ i \in DOMAIN role.axes |-> IF role.axes[i] = NoAxis THEN "none" ELSE table[role.axes[i] + 1] ]
SameRole(n) ==
    /\ sepd.dsets[n].cat = SrcRole(n).cat
    /\ n \notin { "vis", "vis_mask" } =>
          NamedAxes(sepd.dsets[n], TsDataAxes) = NamedAxes(SrcRole(n), MainDataAxes)

\* C17: the datasets of the container separate_pol_and_bl returns are the
\* source's without channo and with pol, each under the role it had in the
\* source.
C17_DatasetNames ==
    (sepd.made /\ sepd.returned) =>
        /\ DOMAIN sepd.dsets = (srcd.names \ { "channo" }) \cup { "pol" }
        /\ \A n \in srcd.names \ { "channo" } : SameRole(n)
        /\ NamedAxes(sepd.dsets["pol"], TsDataAxes) = << "polarization" >>

\* a source holding a dataset of every other role
C17_Witness ==
    /\ sepd.made
    /\ sepd.returned
    /\ { "channo", "sec1970", "freq", "weather", "antpointing", "misc_common", "misc_dist" } \subseteq srcd.names
    /\ "antpointing" \in DOMAIN sepd.dsets


\* the time index a sample stored at t is stored at after the roll
RolledTo(t) == ((t - 1 + RollLen(Len(mmbefore.vis), mmpar.phi_size)) % Len(mmbefore.vis)) + 1
InDaytime(t) ==
    /\ mmbefore.local_hour[t] >= mmpar.mask_time_range[1]
    /\ mmbefore.local_hour[t] <= mmpar.mask_time_range[2]

\* C18 (as stated): with simulate off the stage leaves every visibility value
\* at its time index, and with mask_daytime the mask is true for every sample
\* whose local hour lies in the range.
C18_VisInPlace ==
    (mmbefore # NoContainer /\ ~ mmpar.simulate) =>
        /\ \A t \in DOMAIN mm.vis : mm.vis[t] = mmbefore.vis[t]
        /\ mmpar.mask_daytime =>
              \A t \in DOMAIN mm.vis : InDaytime(t) => \A f \in Freqs : mm.vis_mask[t][f]

\* C18 (amended): with simulate off the stage changes no visibility value but
\* moves it: the sample stored at time index t is stored at (t + roll_len)
\* mod nt afterwards, with its mask, which is true if it was or, with
\* mask_daytime, if the sample's local hour lies in the range; local_hour is
\* not moved.
C18_VisRolled ==
    (mmbefore # NoContainer /\ ~ mmpar.simulate) =>
        /\ DOMAIN mm.vis = DOMAIN mmbefore.vis
        /\ \A t \in DOMAIN mmbefore.vis :
              /\ mm.vis[RolledTo(t)] = mmbefore.vis[t]
              /\ \A f \in Freqs :
                    mm.vis_mask[RolledTo(t)][f] <=>
                        (mmbefore.vis_mask[t][f] \/ (mmpar.mask_daytime /\ InDaytime(t)))
        /\ mm.local_hour = mmbefore.local_hour

\* a stage that masked a daytime sample and moved it to another time index
C18_Witness ==
    /\ mmbefore # NoContainer
    /\ ~ mmpar.simulate
    /\ mmpar.mask_daytime
    /\ \E t \in DOMAIN mmbefore.vis :
          /\ InDaytime(t)
          /\ RolledTo(t) # t
          /\ \E f \in Freqs : ~ mmbefore.vis_mask[t][f] /\ mm.vis_mask[RolledTo(t)][f]
          /\ ~ InDaytime(RolledTo(t))


IsPrefix(s, u) == Len(s) <= Len(u) /\ \A i \in 1..Len(s) : s[i] = u[i]

\* C14: the workers make the same collective calls in the same order with
\* the same arguments: no worker is inside a collective call while another
\* has ended without it or is inside a different one.
C14_SameCollectives ==
    pc = "workers" =>
        \A r1, r2 \in Ranks :
            /\ IsPrefix(wpc[r1].log, wpc[r2].log) \/ IsPrefix(wpc[r2].log, wpc[r1].log)
            /\ wait[r1] # NoWait =>
                  /\ wait[r2] # NoWait => wait[r2] = wait[r1]
                  /\ wpc[r2].pos \in { "return", "raised" } => wpc[r2].log = wpc[r1].log
            /\ (wpc[r1].pos = "return" /\ wpc[r2].pos = "return") => wpc[r1].log = wpc[r2].log

\* a Flag run on a container distributed along frequency, two ranks' shares
\* of which lie on either side of freq_points, every rank having made the
\* redistribute call and ended
C14_Witness ==
    /\ pc = "workers"
    /\ job.stage = "Flag"
    /\ job.dist_axis = 1
    /\ \E r1, r2 \in Ranks :
          LocalLen(job.nfreq, r1) >= job.freq_points /\ LocalLen(job.nfreq, r2) < job.freq_points
    /\ \A r \in Ranks : wpc[r].pos = "return" /\ wpc[r].log = << << "redistribute", 0 >> >>

=============================================================================
